---- MODULE Spec2Model ----
(***************************************************************************)
(* Model of the gridium tile game: the zustand game store (character       *)
(* position, terrain, tree positions), the TileGrid click handler, the     *)
(* Trees placement loop and the river generator of TileGrid.tsx.           *)
(*                                                                         *)
(* Cells are pairs <<row, col>>.  The code keys its sets by the string     *)
(* `${row},${col}`; Key builds that string.  Math.random() is a            *)
(* nondeterministic choice over the values the expression can take.        *)
(***************************************************************************)
EXTENDS Integers, Sequences, FiniteSets, TLC

VARIABLES
    rows,           \* TileGrid prop rows
    cols,           \* TileGrid prop cols
    characterRow,   \* store.characterRow
    characterCol,   \* store.characterCol
    terrain,        \* store.terrain (NoTerrain models null)
    treePositions,  \* store.treePositions: set of keys
    score,          \* store.score
    gameState,      \* store.gameState
    treesStale,     \* TRUE while Trees has a render/effect for the current terrain pending
    lastOp,         \* history: the store operation of the last step
    diagRun,        \* history: number of (1,1) moves in a row since (0,0) with no trees, or -1
    gen             \* position and locals of the generator, loop or lookup being run

vars == <<rows, cols, characterRow, characterCol, terrain, treePositions,
          score, gameState, treesStale, lastOp, diagRun, gen>>

(***************************************************************************)
(* Bounds of the model and constants of the program                        *)
(***************************************************************************)
MaxDraws == 2        \* random draws of one Trees placement that are not repeats
MaxDim == 6          \* the small river grids are 4..MaxDim x 4..MaxDim
MaxStartDraw == 1    \* start offsets of a river: those below this, and the largest
MaxPeakAttempts == 5 \* mountains: iterations of the cluster loop that are run
MaxClusterDraws == 2 \* classifier inputs: attempts of the mountain loop that are drawn
MaxScore == 1        \* store: scores 0..MaxScore are set and added up to
MaxFreePops == 3     \* lake: the first pops draw any frontier index, later ones index 0

MAX_ROW == 27
MAX_COL == 19
START_ROW == 12
START_COL == 8
ROWS == 28
COLS == 20
NUM_TREES == 25
MAX_ATTEMPTS == 200
BOARD_ROWS == 8
BOARD_COLS == 8

Min(a, b) == IF a < b THEN a ELSE b
Max(a, b) == IF a > b THEN a ELSE b

Key(row, col) == ToString(row) \o "," \o ToString(col)

KeySet(tiles) == {Key(tiles[i][1], tiles[i][2]) : i \in 1..Len(tiles)}

\* Math.floor(Math.random() * n)
RandInt(n) == IF n > 0 THEN 0..(n - 1) ELSE n..0

(***************************************************************************)
(* River generator (TileGrid.tsx)                                          *)
(***************************************************************************)
\* faulty variant: the cell at the high end of a segment is left out
addSegmentTilesOpen(tiles, p, q) ==
    IF p[1] = q[1]
    THEN tiles \o [i \in 1..(Max(p[2], q[2]) - Min(p[2], q[2])) |->
                      <<p[1], Min(p[2], q[2]) + i - 1>>]
    ELSE tiles \o [i \in 1..(Max(p[1], q[1]) - Min(p[1], q[1])) |->
                      <<Min(p[1], q[1]) + i - 1, p[2]>>]

addSegmentTiles(tiles, p, q) ==
    IF p[1] = q[1]
    THEN tiles \o [i \in 1..(Max(p[2], q[2]) - Min(p[2], q[2]) + 1) |->
                      <<p[1], Min(p[2], q[2]) + i - 1>>]
    ELSE tiles \o [i \in 1..(Max(p[1], q[1]) - Min(p[1], q[1]) + 1) |->
                      <<Min(p[1], q[1]) + i - 1, p[2]>>]

RECURSIVE segmentFrom(_, _, _)
segmentFrom(waypoints, w, segment) ==
    IF w > Len(waypoints) - 1 THEN segment
    ELSE segmentFrom(waypoints, w + 1,
                     addSegmentTiles(segment, waypoints[w], waypoints[w + 1]))

\* faulty variant: the copy keeps the repeated tiles
keepRepeats(segment, i, riverTiles, used) == segment

RECURSIVE dedupeFrom(_, _, _, _)
dedupeFrom(segment, i, riverTiles, used) ==
    IF i > Len(segment) THEN riverTiles
    ELSE LET t == segment[i]
             key == Key(t[1], t[2])
         IN IF key \notin used
            THEN dedupeFrom(segment, i + 1, Append(riverTiles, t), used \cup {key})
            ELSE dedupeFrom(segment, i + 1, riverTiles, used)

\* the stride along the primary axis: colSteps / rowSteps
stride(len, numBends) == Max(2, (len - 2) \div (numBends + 1))

\* the first waypoint, on the starting edge
startWaypoint(horizontal, cur) == IF horizontal THEN <<cur, 0>> ELSE <<0, cur>>

\* one iteration of the bend loop: the two waypoints pushed and the new r (or c)
bendStep(horizontal, rws, cls, numBends, b, cur, jit, jog) ==
    IF horizontal
    THEN LET c == Min(cls - 1, (b + 1) * stride(cls, numBends) + jit)
             r2 == Max(1, Min(rws - 2, cur + jog))
         IN [cur |-> r2, wps |-> << <<cur, c>>, <<r2, c>> >>]
    ELSE LET r == Min(rws - 1, (b + 1) * stride(rws, numBends) + jit)
             c2 == Max(1, Min(cls - 2, cur + jog))
         IN [cur |-> c2, wps |-> << <<r, cur>>, <<r, c2>> >>]

\* faulty variant: the last waypoint stops one cell short of the far edge
endWaypointShort(horizontal, rws, cls, cur) ==
    IF horizontal THEN <<cur, cls - 2>> ELSE <<rws - 2, cur>>

\* the last waypoint, on the far edge
endWaypoint(horizontal, rws, cls, cur) ==
    IF horizontal THEN <<cur, cls - 1>> ELSE <<rws - 1, cur>>

\* the segments between consecutive waypoints, then the copy without repeats
riverOfWaypoints(waypoints) ==
    dedupeFrom(segmentFrom(waypoints, 1, <<>>), 1, <<>>, {})

RECURSIVE bendsFrom(_, _, _, _, _, _, _, _)
bendsFrom(horizontal, rws, cls, numBends, b, cur, waypoints, draws) ==
    IF b >= numBends
    THEN Append(waypoints, endWaypoint(horizontal, rws, cls, cur))
    ELSE LET s == bendStep(horizontal, rws, cls, numBends, b, cur,
                           draws[b + 1][1], draws[b + 1][2])
         IN bendsFrom(horizontal, rws, cls, numBends, b + 1, s.cur,
                      waypoints \o s.wps, draws)

\* pickRandomRiverTiles with its random draws given: start is the offset of the
\* first r (or c), draws[b + 1] = <<jit, jog>> the draws of bend b
pickRandomRiverTiles(rws, cls, horizontal, numBends, start, draws) ==
    riverOfWaypoints(
        bendsFrom(horizontal, rws, cls, numBends, 0, 2 + start,
                  <<startWaypoint(horizontal, 2 + start)>>, draws))

(***************************************************************************)
(* Terrain published by TileGrid                                           *)
(***************************************************************************)
NoTerrain == [riverSet |-> {}, lakeSet |-> {}, generated |-> FALSE]

\* one river the generator can return: horizontal, two bends, jogs +1 then -1
sampleRiver(rws, cls) ==
    pickRandomRiverTiles(rws, cls, TRUE, 2, 0, << <<0, 1>>, <<0, -1>> >>)

\* one lake the generator can return for that river: seed (4,2), ten tiles
sampleLake ==
    << <<4, 2>>, <<4, 1>>, <<4, 0>>, <<4, 3>>, <<4, 4>>,
       <<5, 2>>, <<5, 1>>, <<5, 0>>, <<5, 3>>, <<5, 4>> >>

\* the sets TileGrid's useMemo builds and its effect passes to setTerrain
terrainOf(riverTiles, lakeTiles) ==
    [riverSet |-> KeySet(riverTiles), lakeSet |-> KeySet(lakeTiles),
     generated |-> TRUE]

(***************************************************************************)
(* Store operations (gameStore.ts), click handler, Trees placement         *)
(***************************************************************************)
\* dRow and dCol of a move; the key handler sends the eight directions, the store
\* action takes any pair, (0,0) included
Deltas == {-1, 0, 1}

moveBlocked(row, col, trees, dRow, dCol) ==
    Key(row + dRow, col + dCol) \in trees

\* faulty variant: a blocked move slides along the row axis
moveSliding(row, col, trees, dRow, dCol) ==
    IF ~moveBlocked(row, col, trees, dRow, dCol)
    THEN <<Max(0, Min(MAX_ROW, row + dRow)), Max(0, Min(MAX_COL, col + dCol))>>
    ELSE IF Key(row + dRow, col) \in trees THEN <<row, col>>
    ELSE <<Max(0, Min(MAX_ROW, row + dRow)), col>>

\* faulty variant: the lower clamp is 1
moveClampedFromOne(row, col, trees, dRow, dCol) ==
    IF moveBlocked(row, col, trees, dRow, dCol) THEN <<row, col>>
    ELSE <<Max(1, Min(MAX_ROW, row + dRow)), Max(1, Min(MAX_COL, col + dCol))>>

\* faulty variant: a diagonal move is also blocked by a tree beside its path
moveBlockedBeside(row, col, trees, dRow, dCol) ==
    IF \/ moveBlocked(row, col, trees, dRow, dCol)
       \/ Key(row + dRow, col) \in trees
       \/ Key(row, col + dCol) \in trees
    THEN <<row, col>>
    ELSE <<Max(0, Min(MAX_ROW, row + dRow)), Max(0, Min(MAX_COL, col + dCol))>>

moveCharacter(row, col, trees, dRow, dCol) ==
    LET newRow == row + dRow
        newCol == col + dCol
    IN IF moveBlocked(row, col, trees, dRow, dCol) THEN <<row, col>>
       ELSE <<Max(0, Min(MAX_ROW, newRow)), Max(0, Min(MAX_COL, newCol))>>

\* faulty variant: the click handler does not look at the trees
clickAnywhere(row, col, trees, pos) == <<row, col>>

\* handleClick of the tile (row, col): the position the store holds afterwards
handleClick(row, col, trees, pos) ==
    IF Key(row, col) \in trees THEN pos ELSE <<row, col>>

\* type GameState (gameStore.ts line 7)
GameStates == {"playing", "paused", "menu", "gameover"}

\* faulty variant: reset keeps the score
resetKeepsScore(sc, gs) == <<sc, "menu">>

\* score and gameState as reset leaves them
resetScoreState(sc, gs) == <<0, "menu">>

\* the while loop of Trees' useMemo, on the given sequence of random draws; a run
\* of the code whose later draws are all rejected returns the same positions
RECURSIVE placeLoop(_, _, _, _)
placeLoop(positions, attempts, draws, water) ==
    IF ~(Len(positions) < NUM_TREES /\ attempts < MAX_ATTEMPTS) \/ draws = <<>>
    THEN positions
    ELSE LET row == Head(draws)[1]
             col == Head(draws)[2]
             rest == Tail(draws)
         IN IF Key(row, col) \in water
            THEN placeLoop(positions, attempts + 1, rest, water)
            ELSE IF row = START_ROW /\ col = START_COL
            THEN placeLoop(positions, attempts + 1, rest, water)
            ELSE IF \E i \in 1..Len(positions) : positions[i] = <<row, col>>
            THEN placeLoop(positions, attempts + 1, rest, water)
            ELSE placeLoop(Append(positions, <<row, col>>), attempts + 1, rest, water)

\* faulty variant: trees are placed before a terrain is there
treePositionsOfNullTerrain(t, draws) ==
    placeLoop(<<>>, 0, draws, t.riverSet \cup t.lakeSet)

treePositionsOf(t, draws) ==
    IF ~t.generated THEN <<>>
    ELSE placeLoop(<<>>, 0, draws, t.riverSet \cup t.lakeSet)

\* the cells the modelled random draws of Trees fall on (all inside ROWS x COLS):
\* three land cells, the start cell and a river cell
TreeDraws == {<<0, 6>>, <<5, 5>>, <<6, 5>>, <<START_ROW, START_COL>>, <<2, 0>>}

DrawSeqs ==
    UNION {[1..n -> TreeDraws] : n \in 0..MaxDraws}

\* the tiles the modelled clicks fall on
ClickCells == {<<0, 0>>, <<0, 5>>, <<5, 4>>, <<4, 5>>, <<5, 5>>, <<7, 7>>}

\* the grids TileGrid is created with: the game scene's and the 8x8 board
Grids == {<<ROWS, COLS>>, <<BOARD_ROWS, BOARD_COLS>>}

Pos == <<characterRow, characterCol>>

InGrid(p) == p[1] \in 0..(rows - 1) /\ p[2] \in 0..(cols - 1)

\* the scenario counter: 0 at (0,0) with no trees, else not running
startRun(p, trees) == IF p = <<0, 0>> /\ trees = {} THEN 0 ELSE -1

genIdle ==
    [pc |-> "idle", horizontal |-> TRUE, numBends |-> 0, b |-> 0, cur |-> 0,
     waypoints |-> <<>>, jogs |-> <<>>, riverTiles |-> <<>>]

\* the store as created (gameStore.ts lines 40-45), nothing mounted yet
StoreInit ==
    /\ characterRow = START_ROW
    /\ characterCol = START_COL
    /\ terrain = NoTerrain
    /\ treePositions = {}
    /\ treesStale = TRUE
    /\ lastOp = <<"init", 0, 0, FALSE>>
    /\ diagRun = -1
    /\ score = 0
    /\ gameState = "menu"
    /\ gen = genIdle

\* the game scene: <TileGrid rows={28} cols={20} />
Init == rows = ROWS /\ cols = COLS /\ StoreInit

\* the 8x8 board: <TileGrid rows={8} cols={8} />
InitBoard == rows = BOARD_ROWS /\ cols = BOARD_COLS /\ StoreInit

\* input events are dispatched once the mount effects (terrain published, trees
\* placed) have run; effects are flushed before the next event is handled
Mounted == terrain.generated /\ ~treesStale

\* Character's handleKeyDown -> store.moveCharacter(dRow, dCol)
MoveCharacter ==
    /\ Mounted
    /\ \E dRow \in Deltas, dCol \in Deltas :
        LET p == moveCharacter(characterRow, characterCol, treePositions, dRow, dCol)
        IN /\ characterRow' = p[1]
           /\ characterCol' = p[2]
           /\ lastOp' = <<"move", dRow, dCol,
                          moveBlocked(characterRow, characterCol, treePositions, dRow, dCol)>>
           /\ diagRun' = IF dRow = 1 /\ dCol = 1 /\ diagRun \in 0..7
                         THEN diagRun + 1
                         ELSE startRun(p, treePositions)
           /\ UNCHANGED <<rows, cols, terrain, treePositions, score, gameState,
                        treesStale, gen>>

\* onClick of a tile of the grid -> handleClick -> store.setCharacterPosition
TileClick ==
    /\ Mounted
    /\ \E cell \in ClickCells :
        /\ InGrid(cell)
        /\ LET p == handleClick(cell[1], cell[2], treePositions, Pos)
           IN /\ characterRow' = p[1]
              /\ characterCol' = p[2]
              /\ diagRun' = startRun(p, treePositions)
        /\ lastOp' = <<"click", cell[1], cell[2], Key(cell[1], cell[2]) \in treePositions>>
        /\ UNCHANGED <<rows, cols, terrain, treePositions, score, gameState,
                        treesStale, gen>>

\* store.reset()
Reset ==
    /\ Mounted
    /\ characterRow' = START_ROW
    /\ characterCol' = START_COL
    /\ treePositions' = {}
    /\ score' = resetScoreState(score, gameState)[1]
    /\ gameState' = resetScoreState(score, gameState)[2]
    /\ lastOp' = <<"reset", 0, 0, FALSE>>
    /\ diagRun' = -1
    /\ UNCHANGED <<rows, cols, terrain, treesStale, gen>>

\* TileGrid's useMemo and effect: a terrain is generated and published; Trees,
\* subscribed to terrain, has its useMemo and effect to run
SetTerrain ==
    /\ terrain' = terrainOf(sampleRiver(rows, cols), sampleLake)
    /\ treesStale' = TRUE
    /\ lastOp' = <<"setTerrain", 0, 0, FALSE>>
    /\ diagRun' = startRun(Pos, treePositions)
    /\ UNCHANGED <<rows, cols, characterRow, characterCol, treePositions,
                   score, gameState, gen>>

\* Trees' useMemo and effect: positions are drawn and store.setTreePositions called
PlaceTrees ==
    /\ treesStale
    /\ \E draws \in DrawSeqs :
           treePositions' = KeySet(treePositionsOf(terrain, draws))
    /\ treesStale' = FALSE
    /\ lastOp' = <<"setTreePositions", 0, 0, FALSE>>
    /\ diagRun' = startRun(Pos, treePositions')
    /\ UNCHANGED <<rows, cols, characterRow, characterCol, terrain,
                   score, gameState, gen>>

Next ==
    \/ MoveCharacter
    \/ TileClick
    \/ Reset
    \/ SetTerrain
    \/ PlaceTrees

Spec == Init /\ [][Next]_vars

SpecBoard == InitBoard /\ [][Next]_vars

(***************************************************************************)
(* The store with its score and game state operations                      *)
(***************************************************************************)
\* store.setScore(v)
SetScore ==
    /\ Mounted
    /\ \E v \in 0..MaxScore :
        /\ score' = v
        /\ lastOp' = <<"setScore", v, 0, FALSE>>
    /\ diagRun' = startRun(Pos, treePositions)
    /\ UNCHANGED <<rows, cols, characterRow, characterCol, terrain, treePositions,
                   gameState, treesStale, gen>>

\* store.addScore(delta)
AddScore ==
    /\ Mounted
    /\ \E delta \in {-1, 1} :
        /\ score + delta \in 0..MaxScore
        /\ score' = score + delta
        /\ lastOp' = <<"addScore", delta, 0, FALSE>>
    /\ diagRun' = startRun(Pos, treePositions)
    /\ UNCHANGED <<rows, cols, characterRow, characterCol, terrain, treePositions,
                   gameState, treesStale, gen>>

\* store.setGameState(s)
SetGameState ==
    /\ Mounted
    /\ \E s \in GameStates :
        /\ gameState' = s
        /\ lastOp' = <<"setGameState", 0, 0, FALSE>>
    /\ diagRun' = startRun(Pos, treePositions)
    /\ UNCHANGED <<rows, cols, characterRow, characterCol, terrain, treePositions,
                   score, treesStale, gen>>

\* the draws of Trees that the store model runs: none accepted, one tree, two
StoreDraws == {<<>>, << <<5, 5>> >>, << <<0, 6>>, <<5, 5>> >>}

\* Trees' useMemo and effect on those draws
PlaceTreesFew ==
    /\ treesStale
    /\ \E draws \in StoreDraws :
           treePositions' = KeySet(treePositionsOf(terrain, draws))
    /\ treesStale' = FALSE
    /\ lastOp' = <<"setTreePositions", 0, 0, FALSE>>
    /\ diagRun' = startRun(Pos, treePositions')
    /\ UNCHANGED <<rows, cols, characterRow, characterCol, terrain,
                   score, gameState, gen>>

NextStore ==
    \/ MoveCharacter
    \/ TileClick
    \/ Reset
    \/ SetTerrain
    \/ PlaceTreesFew
    \/ SetScore
    \/ AddScore
    \/ SetGameState

SpecStore == Init /\ [][NextStore]_vars

(***************************************************************************)
(* The river generator run step by step: one action per random draw point  *)
(***************************************************************************)
manhattanDist(p, q) ==
    (IF p[1] >= q[1] THEN p[1] - q[1] ELSE q[1] - p[1])
    + (IF p[2] >= q[2] THEN p[2] - q[2] ELSE q[2] - p[2])

RiverGrids == {<<r, c>> : r \in 4..MaxDim, c \in 4..MaxDim} \cup Grids

\* the modelled draws of the start offset Math.floor(Math.random() * n)
StartDraws(n) == {k \in RandInt(n) : k < MaxStartDraw \/ k = n - 1}

InitRiver ==
    /\ \E g \in RiverGrids : rows = g[1] /\ cols = g[2]
    /\ StoreInit

store == <<rows, cols, characterRow, characterCol, terrain, treePositions,
           score, gameState, treesStale, lastOp, diagRun>>

\* lines 43-51 / 66-68: orientation, number of bends, first waypoint
RiverBegin ==
    /\ gen.pc = "idle"
    /\ \E horizontal \in BOOLEAN, k \in RandInt(3) :
         \E start \in StartDraws((IF horizontal THEN rows ELSE cols) - 4) :
           gen' = [pc |-> "bend", horizontal |-> horizontal, numBends |-> 2 + k,
                   b |-> 0, cur |-> 2 + start,
                   waypoints |-> <<startWaypoint(horizontal, 2 + start)>>,
                   jogs |-> <<>>, riverTiles |-> <<>>]
    /\ UNCHANGED store

\* one iteration of the bend loop (lines 53-59 / 70-76)
RiverBend ==
    /\ gen.pc = "bend"
    /\ gen.b < gen.numBends
    /\ \E jit \in RandInt(2), sign \in {-1, 1}, mag \in RandInt(2) :
         LET jog == sign * (1 + mag)
             s == bendStep(gen.horizontal, rows, cols, gen.numBends, gen.b,
                           gen.cur, jit, jog)
         IN gen' = [gen EXCEPT !.b = gen.b + 1, !.cur = s.cur,
                               !.waypoints = gen.waypoints \o s.wps,
                               !.jogs = Append(gen.jogs, jog)]
    /\ UNCHANGED store

\* last waypoint, segments, removal of repeats, return (lines 60-63 / 77-90)
RiverEnd ==
    /\ gen.pc = "bend"
    /\ gen.b >= gen.numBends
    /\ LET wps == Append(gen.waypoints,
                         endWaypoint(gen.horizontal, rows, cols, gen.cur))
       IN gen' = [gen EXCEPT !.pc = "done", !.waypoints = wps,
                             !.riverTiles = riverOfWaypoints(wps)]
    /\ UNCHANGED store

NextRiver ==
    \/ RiverBegin
    \/ RiverBend
    \/ RiverEnd

SpecRiver == InitRiver /\ [][NextRiver]_vars

(***************************************************************************)
(* Properties of the movement rule and the session (under Spec)            *)
(***************************************************************************)
GridKeys == {Key(r, c) : r \in 0..(rows - 1), c \in 0..(cols - 1)}

\* the candidate cell of the move made by the step
Candidate == <<characterRow + lastOp'[2], characterCol + lastOp'[3]>>

MoveStep == lastOp'[1] = "move"

\* C1: a move from an in-grid position that is not an obstacle, with obstacles
\* that are in-grid cells, never ends on an obstacle cell
C1_MoveNeverEndsOnObstacle ==
    [][(/\ MoveStep
        /\ InGrid(Pos)
        /\ Key(Pos[1], Pos[2]) \notin treePositions
        /\ treePositions \subseteq GridKeys)
       => Key(characterRow', characterCol') \notin treePositions']_vars

\* C2: a move from a position inside the rows x cols grid ends inside that grid
C2_MoveStaysInGrid ==
    [][(MoveStep /\ InGrid(Pos)) => InGrid(<<characterRow', characterCol'>>)]_vars

\* C3: a move whose candidate cell is an obstacle changes neither the row nor
\* the column of the character
C3_BlockedMoveIsAtomic ==
    [][(MoveStep /\ Key(Candidate[1], Candidate[2]) \in treePositions)
       => (characterRow' = characterRow /\ characterCol' = characterCol)]_vars

\* a diagonal move towards the tree at (5,5) has just been rejected
C3_Witness ==
    /\ lastOp = <<"move", 1, 1, TRUE>>
    /\ Pos = <<4, 4>>
    /\ Key(5, 5) \in treePositions

\* C4: in every reachable state the character is inside the grid and not on a
\* cell of the current obstacle set
C4_PositionInGridOffObstacles ==
    InGrid(Pos) /\ Key(characterRow, characterCol) \notin treePositions

\* C5 (as claimed): every step that changes the position is a move of the
\* movement rule for some delta
C5_OnlyMovementRule ==
    [][(<<characterRow', characterCol'>> # Pos)
       => \E dRow \in Deltas, dCol \in Deltas :
              <<characterRow', characterCol'>> =
                  moveCharacter(characterRow, characterCol, treePositions, dRow, dCol)]_vars

\* C5 (amended): every step that changes the position is a move of the movement
\* rule, a click on a tile of the grid that is not an obstacle (the character
\* goes to that tile), or reset (the character goes to the start cell)
C5_OnlyMoveClickReset ==
    [][(<<characterRow', characterCol'>> # Pos)
       => \/ /\ MoveStep
             /\ <<characterRow', characterCol'>> =
                    moveCharacter(characterRow, characterCol, treePositions,
                                  lastOp'[2], lastOp'[3])
          \/ /\ lastOp'[1] = "click"
             /\ InGrid(<<characterRow', characterCol'>>)
             /\ Key(characterRow', characterCol') \notin treePositions
          \/ /\ lastOp'[1] = "reset"
             /\ characterRow' = START_ROW
             /\ characterCol' = START_COL]_vars

\* a click has put the character on a tile that no single move reaches from the
\* start cell, while trees are placed
C5_Witness ==
    /\ lastOp[1] = "click"
    /\ Pos = <<5, 4>>
    /\ treePositions # {}

\* C6: a move with delta (0,0) from a position inside the grid leaves the
\* position unchanged, whatever the obstacle set
C6_ZeroDeltaIsIdentity ==
    [][(MoveStep /\ lastOp'[2] = 0 /\ lastOp'[3] = 0 /\ InGrid(Pos))
       => (characterRow' = characterRow /\ characterCol' = characterCol)]_vars

\* a (0,0) move has been made on the top border with trees placed
C6_Witness ==
    /\ lastOp[1] = "move" /\ lastOp[2] = 0 /\ lastOp[3] = 0
    /\ InGrid(Pos)
    /\ characterRow = 0
    /\ treePositions # {}

\* C7: on the 8x8 grid with no obstacles, eight (1,1) moves in a row from (0,0)
\* leave the character at (7,7)
C7_EightDiagonalMovesEndAt77 ==
    (rows = 8 /\ cols = 8 /\ treePositions = {} /\ diagRun = 8)
        => Pos = <<rows - 1, cols - 1>>

ConsecutiveAdjacent(tiles) ==
    \A i \in 2..Len(tiles) : manhattanDist(tiles[i - 1], tiles[i]) = 1

C10_RiverTouchesBothBoundaries ==
    gen.pc = "done" =>
        LET tiles == gen.riverTiles
            idx == 1..Len(tiles)
        IN /\ \A i \in idx : InGrid(tiles[i])
           /\ gen.horizontal =>
                  /\ \E i \in idx : tiles[i][2] = 0
                  /\ \E i \in idx : tiles[i][2] = cols - 1
           /\ ~gen.horizontal =>
                  /\ \E i \in idx : tiles[i][1] = 0
                  /\ \E i \in idx : tiles[i][1] = rows - 1

\* a vertical river with a negative jog of magnitude 2 has been returned on the
\* 28x20 grid
C10_Witness ==
    /\ gen.pc = "done"
    /\ rows = ROWS /\ cols = COLS
    /\ ~gen.horizontal
    /\ \E j \in 1..Len(gen.jogs) : gen.jogs[j] = -2

(***************************************************************************)
(* The lake generator (TileGrid.tsx, pickRandomLakeTiles) run step by step  *)
(***************************************************************************)
\* faulty variant: the right-hand neighbour is pushed on the last column too
getAdjacentPastEdge(row, col, rws, cls) ==
    (IF row > 0 THEN << <<row - 1, col>> >> ELSE <<>>)
    \o (IF row < rws - 1 THEN << <<row + 1, col>> >> ELSE <<>>)
    \o (IF col > 0 THEN << <<row, col - 1>> >> ELSE <<>>)
    \o (IF col < cls THEN << <<row, col + 1>> >> ELSE <<>>)

getAdjacent(row, col, rws, cls) ==
    (IF row > 0 THEN << <<row - 1, col>> >> ELSE <<>>)
    \o (IF row < rws - 1 THEN << <<row + 1, col>> >> ELSE <<>>)
    \o (IF col > 0 THEN << <<row, col - 1>> >> ELSE <<>>)
    \o (IF col < cls - 1 THEN << <<row, col + 1>> >> ELSE <<>>)

\* array.splice(idx, 1), idx counted from 0
splice(arr, idx) == SubSeq(arr, 1, idx) \o SubSeq(arr, idx + 2, Len(arr))

\* lines 109-113: the neighbours not in the lake and not in the frontier are pushed
RECURSIVE pushNeighbours(_, _, _, _)
pushNeighbours(adj, i, inLake, frontier) ==
    IF i > Len(adj) THEN frontier
    ELSE LET n == adj[i]
         IN IF /\ Key(n[1], n[2]) \notin inLake
               /\ ~\E j \in 1..Len(frontier) : frontier[j] = n
            THEN pushNeighbours(adj, i + 1, inLake, Append(frontier, n))
            ELSE pushNeighbours(adj, i + 1, inLake, frontier)

\* faulty variant: the neighbours of a rejected cell are pushed as well
lakePopPushAlways(lakeTiles, inLake, frontier, idx, riverSet, rws, cls) ==
    LET cell == frontier[idx + 1]
        key == Key(cell[1], cell[2])
        rest == splice(frontier, idx)
        pushed == pushNeighbours(getAdjacent(cell[1], cell[2], rws, cls), 1,
                                 inLake \cup {key}, rest)
    IN IF key \in inLake \/ key \in riverSet
       THEN [lakeTiles |-> lakeTiles, inLake |-> inLake, frontier |-> pushed]
       ELSE [lakeTiles |-> Append(lakeTiles, cell),
             inLake |-> inLake \cup {key}, frontier |-> pushed]

\* one iteration of the while loop (lines 102-113) with the drawn index idx
lakePop(lakeTiles, inLake, frontier, idx, riverSet, rws, cls) ==
    LET cell == frontier[idx + 1]
        key == Key(cell[1], cell[2])
        rest == splice(frontier, idx)
    IN IF key \in inLake \/ key \in riverSet
       THEN [lakeTiles |-> lakeTiles, inLake |-> inLake, frontier |-> rest]
       ELSE [lakeTiles |-> Append(lakeTiles, cell),
             inLake |-> inLake \cup {key},
             frontier |-> pushNeighbours(getAdjacent(cell[1], cell[2], rws, cls), 1,
                                         inLake \cup {key}, rest)]

\* the grids the lake generator is run on
LakeGrids == {<<4, 4>>} \cup Grids

\* rivers the river generator can return, the inputs of the lake generator: a
\* horizontal one and a vertical one
LakeRivers(rws, cls) ==
    {sampleRiver(rws, cls),
     pickRandomRiverTiles(rws, cls, FALSE, 2, 0, << <<1, -1>>, <<0, 2>> >>)}

InitLake ==
    /\ \E g \in LakeGrids : rows = g[1] /\ cols = g[2]
    /\ characterRow = START_ROW
    /\ characterCol = START_COL
    /\ terrain = NoTerrain
    /\ treePositions = {}
    /\ treesStale = TRUE
    /\ lastOp = <<"init", 0, 0, FALSE>>
    /\ diagRun = -1
    /\ score = 0
    /\ gameState = "menu"
    /\ \E river \in LakeRivers(rows, cols) :
           gen = [pc |-> "idle", riverTiles |-> river]

\* lines 94-100: river keys, target size, seed cell, first frontier
LakeBegin ==
    /\ gen.pc = "idle"
    /\ \E t \in StartDraws(6), dr \in StartDraws(rows - 4), dc \in StartDraws(cols - 4) :
         LET centerR == 2 + dr
             centerC == 2 + dc
         IN gen' = [pc |-> "lake", riverTiles |-> gen.riverTiles,
                    targetSize |-> 10 + t,
                    lakeTiles |-> << <<centerR, centerC>> >>,
                    inLake |-> {Key(centerR, centerC)},
                    frontier |-> getAdjacent(centerR, centerC, rows, cols),
                    pops |-> 0]
    /\ UNCHANGED store

\* the indexes the modelled draw Math.floor(Math.random() * frontier.length) takes
PopDraws(pops, n) == IF pops < MaxFreePops THEN RandInt(n) ELSE {0}

\* one iteration of the while loop (lines 101-114)
LakePop ==
    /\ gen.pc = "lake"
    /\ Len(gen.lakeTiles) < gen.targetSize
    /\ Len(gen.frontier) > 0
    /\ \E idx \in PopDraws(gen.pops, Len(gen.frontier)) :
         LET s == lakePop(gen.lakeTiles, gen.inLake, gen.frontier, idx,
                          KeySet(gen.riverTiles), rows, cols)
         IN gen' = [gen EXCEPT !.lakeTiles = s.lakeTiles, !.inLake = s.inLake,
                               !.frontier = s.frontier, !.pops = gen.pops + 1]
    /\ UNCHANGED store

\* the loop condition fails: return lakeTiles (line 115)
LakeEnd ==
    /\ gen.pc = "lake"
    /\ ~(Len(gen.lakeTiles) < gen.targetSize /\ Len(gen.frontier) > 0)
    /\ gen' = [gen EXCEPT !.pc = "lakeDone"]
    /\ UNCHANGED store

NextLake ==
    \/ LakeBegin
    \/ LakePop
    \/ LakeEnd

SpecLake == InitLake /\ [][NextLake]_vars

\* the cells of a tile list
Cells(tiles) == {tiles[i] : i \in 1..Len(tiles)}

(***************************************************************************)
(* The mountain generator (TileGrid.tsx, pickRandomBlackTiles) step by step *)
(***************************************************************************)
MIN_GAP == 8
RIVER_MOUNTAIN_GAP == 5
maxTiles == 16

\* lines 136-143: the seed, then clusterSize - 1 neighbours drawn from adj,
\* each drawn index taken from picks, while adj is not empty
\* faulty variant: the picked neighbour stays in adj
RECURSIVE growClusterRepeats(_, _, _, _, _)
growClusterRepeats(cluster, adj, i, clusterSize, picks) ==
    IF i < clusterSize - 1 /\ Len(adj) > 0
    THEN growClusterRepeats(Append(cluster, adj[Min(picks[i + 1] + 1, Len(adj))]),
                            adj, i + 1, clusterSize, picks)
    ELSE cluster

RECURSIVE growCluster(_, _, _, _, _)
growCluster(cluster, adj, i, clusterSize, picks) ==
    IF i < clusterSize - 1 /\ Len(adj) > 0
    THEN growCluster(Append(cluster, adj[picks[i + 1] + 1]),
                     splice(adj, picks[i + 1]), i + 1, clusterSize, picks)
    ELSE cluster

\* faulty variant: the cluster size is not capped at the tiles remaining
clusterSizeUncapped(draw, remaining) == 2 + draw

\* line 133
clusterSizeOf(draw, remaining) == Min(2 + draw, remaining)

\* faulty variant: a cluster at exactly MIN_GAP from an accepted tile passes
tooCloseToOtherStrict(allTiles, cluster) ==
    \E i \in 1..Len(allTiles), j \in 1..Len(cluster) :
        manhattanDist(allTiles[i], cluster[j]) < MIN_GAP

\* lines 144-146
tooCloseToOther(allTiles, cluster) ==
    \E i \in 1..Len(allTiles), j \in 1..Len(cluster) :
        manhattanDist(allTiles[i], cluster[j]) <= MIN_GAP

\* lines 147-152
overlaps(cluster, tiles) ==
    \E i \in 1..Len(cluster), j \in 1..Len(tiles) : cluster[i] = tiles[j]

\* faulty variant: the gap to water is one cell smaller
tooCloseToWaterShort(cluster, tiles) ==
    \E i \in 1..Len(cluster), j \in 1..Len(tiles) :
        manhattanDist(cluster[i], tiles[j]) < RIVER_MOUNTAIN_GAP - 1

\* lines 153-158
tooCloseToWater(cluster, tiles) ==
    \E i \in 1..Len(cluster), j \in 1..Len(tiles) :
        manhattanDist(cluster[i], tiles[j]) < RIVER_MOUNTAIN_GAP

\* line 159
clusterAccepted(allTiles, cluster, riverTiles, lakeTiles) ==
    /\ ~tooCloseToOther(allTiles, cluster)
    /\ ~overlaps(cluster, riverTiles)
    /\ ~overlaps(cluster, lakeTiles)
    /\ ~tooCloseToWater(cluster, riverTiles)
    /\ ~tooCloseToWater(cluster, lakeTiles)

\* the seed cells the modelled draws of lines 134-135 take on the 28x20 grid:
\* five cells far from each other and from the water, one cell at distance 8
\* of another's cluster, one cell whose cluster comes within 4 of the river
PeakSeeds ==
    {<<10, 5>>, <<15, 16>>, <<22, 1>>, <<26, 17>>, <<20, 10>>,
     <<26, 14>>, <<7, 18>>}

\* the indexes the modelled draws of line 139 take: the first neighbour left
AdjDraws(n) == {k \in RandInt(n) : k = 0}

InitPeaks ==
    /\ rows = ROWS
    /\ cols = COLS
    /\ characterRow = START_ROW
    /\ characterCol = START_COL
    /\ terrain = NoTerrain
    /\ treePositions = {}
    /\ treesStale = TRUE
    /\ lastOp = <<"init", 0, 0, FALSE>>
    /\ diagRun = -1
    /\ score = 0
    /\ gameState = "menu"
    /\ gen = [pc |-> "idle", riverTiles |-> sampleRiver(rows, cols),
              lakeTiles |-> sampleLake]

\* lines 124-129
PeaksBegin ==
    /\ gen.pc = "idle"
    /\ \E d \in RandInt(2) :
         gen' = [pc |-> "peaks", riverTiles |-> gen.riverTiles,
                 lakeTiles |-> gen.lakeTiles, numClusters |-> 5 + d,
                 allTiles |-> <<>>, clusters |-> <<>>,
                 clustersAdded |-> 0, attempts |-> 0]
    /\ UNCHANGED store

\* faulty variant: the loop runs while attempts <= maxAttempts
peaksLoopOneMore ==
    /\ gen.clustersAdded < gen.numClusters
    /\ Len(gen.allTiles) < maxTiles
    /\ gen.attempts <= gen.numClusters * 100

peaksLoop ==
    /\ gen.clustersAdded < gen.numClusters
    /\ Len(gen.allTiles) < maxTiles
    /\ gen.attempts < gen.numClusters * 100

\* the body of the while loop (lines 131-162) on the draws d (size), seed and
\* picks (neighbour indexes); clusters keeps the accepted clusters apart,
\* allTiles is the flat list the code returns
peaksAttempt(g, d, seed, picks) ==
    LET clusterSize == clusterSizeOf(d, maxTiles - Len(g.allTiles))
        adj == getAdjacent(seed[1], seed[2], rows, cols)
        cluster == growCluster(<<seed>>, adj, 0, clusterSize, picks)
    IN IF clusterAccepted(g.allTiles, cluster, g.riverTiles, g.lakeTiles)
       THEN [g EXCEPT !.attempts = g.attempts + 1,
                      !.allTiles = g.allTiles \o cluster,
                      !.clusters = Append(g.clusters, cluster),
                      !.clustersAdded = g.clustersAdded + 1]
       ELSE [g EXCEPT !.attempts = g.attempts + 1]

\* one iteration of the while loop (lines 130-163)
PeaksAttempt ==
    /\ gen.pc = "peaks"
    /\ peaksLoop
    /\ gen.attempts < MaxPeakAttempts
    /\ \E d \in RandInt(3), seed \in {p \in PeakSeeds : InGrid(p)} :
       \E p1 \in AdjDraws(Len(getAdjacent(seed[1], seed[2], rows, cols))),
          p2 \in AdjDraws(Len(getAdjacent(seed[1], seed[2], rows, cols)) - 1),
          p3 \in AdjDraws(Len(getAdjacent(seed[1], seed[2], rows, cols)) - 2) :
         gen' = peaksAttempt(gen, d, seed, <<p1, p2, p3>>)
    /\ UNCHANGED store

\* the loop condition fails: return allTiles (line 164)
PeaksEnd ==
    /\ gen.pc = "peaks"
    /\ ~peaksLoop
    /\ gen' = [gen EXCEPT !.pc = "peaksDone"]
    /\ UNCHANGED store

NextPeaks ==
    \/ PeaksBegin
    \/ PeaksAttempt
    \/ PeaksEnd

SpecPeaks == InitPeaks /\ [][NextPeaks]_vars

(***************************************************************************)
(* Claims about the lake generator                                          *)
(***************************************************************************)
LakeRunning == gen.pc \in {"lake", "lakeDone"}

\* C11: the lake pickRandomLakeTiles returns shares no cell with the river it
\* was given, whatever the draws, the draw of the seed cell included.
C11_LakeDisjointFromRiver ==
    gen.pc = "lakeDone" =>
        KeySet(gen.lakeTiles) \cap KeySet(gen.riverTiles) = {}

\* the cells of tiles reachable from the cells in reached through orthogonally
\* adjacent cells of tiles
RECURSIVE reachable(_, _)
reachable(reached, tiles) ==
    LET more == {t \in tiles \ reached :
                    \E u \in reached : manhattanDist(t, u) = 1}
    IN IF more = {} THEN reached ELSE reachable(reached \cup more, tiles)

\* C12: after any number of frontier expansions every lake cell is reachable
\* from the seed cell through orthogonally adjacent lake cells.
C12_LakeConnected ==
    LakeRunning =>
        reachable({gen.lakeTiles[1]}, Cells(gen.lakeTiles)) = Cells(gen.lakeTiles)

\* a returned lake of the target size, grown past a rejected frontier cell
C12_Witness ==
    /\ gen.pc = "lakeDone"
    /\ Len(gen.lakeTiles) = gen.targetSize
    /\ gen.pops > Len(gen.lakeTiles) - 1

(***************************************************************************)
(* Claims about the mountain generator                                      *)
(***************************************************************************)
PeaksRunning == gen.pc \in {"peaks", "peaksDone"}

\* C13: the mountain generator never returns more than 16 peak cells in
\* total, whatever the draws.
C13_AtMostSixteenPeaks ==
    PeaksRunning => Len(gen.allTiles) <= 16

\* a returned list of exactly 16 peak cells
C13_Witness ==
    gen.pc = "peaksDone" /\ Len(gen.allTiles) = 16

\* C14: every accepted cluster has between 2 and 4 peak cells, and at most 6
\* clusters are accepted.
C14_ClusterSizeTwoToFour ==
    PeaksRunning =>
        /\ \A i \in 1..Len(gen.clusters) : Len(gen.clusters[i]) \in 2..4
        /\ Len(gen.clusters) <= 6

\* the smallest Manhattan distance between a cell of a and a cell of b
gapBetween(a, b) ==
    CHOOSE d \in 0..(ROWS + COLS) :
        /\ \E x \in Cells(a), y \in Cells(b) : manhattanDist(x, y) = d
        /\ \A x \in Cells(a), y \in Cells(b) : manhattanDist(x, y) >= d

\* C15: for any two different accepted clusters, every cell of one is at
\* Manhattan distance greater than 8 from every cell of the other.
C15_ClustersFartherThanEight ==
    PeaksRunning =>
        \A i, j \in 1..Len(gen.clusters) :
            i # j => \A x \in 1..Len(gen.clusters[i]), y \in 1..Len(gen.clusters[j]) :
                         manhattanDist(gen.clusters[i][x], gen.clusters[j][y]) > 8

\* two accepted clusters at the smallest distance allowed, 9
C15_Witness ==
    /\ PeaksRunning
    /\ \E i, j \in 1..Len(gen.clusters) :
           i # j /\ gapBetween(gen.clusters[i], gen.clusters[j]) = 9

\* C16: every peak cell returned is at
\* Manhattan distance at least 5 from every river cell and every lake cell.
C16_PeaksFiveFromWater ==
    gen.pc = "peaksDone" =>
        \A x \in 1..Len(gen.allTiles) :
            /\ \A w \in 1..Len(gen.riverTiles) :
                   manhattanDist(gen.allTiles[x], gen.riverTiles[w]) >= 5
            /\ \A w \in 1..Len(gen.lakeTiles) :
                   manhattanDist(gen.allTiles[x], gen.lakeTiles[w]) >= 5

\* a returned peak cell at distance exactly 5 from a water cell, after an
\* attempt that was rejected
C16_Witness ==
    /\ gen.pc = "peaksDone"
    /\ gen.attempts > gen.clustersAdded
    /\ \E x \in Cells(gen.allTiles), w \in Cells(gen.riverTiles \o gen.lakeTiles) :
           manhattanDist(x, w) = 5

(***************************************************************************)
(* The elevation lookups: getElevationFromTerrain (terrain.ts) and          *)
(* getTileInfo (TileGrid.tsx), applied to classification bundles            *)
(***************************************************************************)
\* one step of elevation, counted in half steps: the code's 0.3 is 2 here, so
\* that STEP_HEIGHT / 2 stays an integer
STEP_HEIGHT == 2

\* TerrainData | null: generated is FALSE for null
NoBundle ==
    [blackSet |-> {}, graySet |-> {}, darkGreenInner |-> {}, darkGreenOuter |-> {},
     riverSet |-> {}, riverAdjacentSet |-> {}, lakeSet |-> {}, lakeAdjacentSet |-> {},
     generated |-> FALSE]

\* faulty variant: darkGreenOuter is tested before the water sets
getElevationOuterFirst(t, row, col) ==
    LET key == Key(row, col)
    IN IF ~t.generated THEN -STEP_HEIGHT
       ELSE IF key \in t.blackSet THEN 2 * STEP_HEIGHT
       ELSE IF key \in t.graySet THEN STEP_HEIGHT
       ELSE IF key \in t.darkGreenInner THEN STEP_HEIGHT \div 2
       ELSE IF key \in t.darkGreenOuter THEN 0
       ELSE IF key \in t.riverSet THEN -2 * STEP_HEIGHT
       ELSE IF key \in t.lakeSet THEN -2 * STEP_HEIGHT
       ELSE IF key \in t.riverAdjacentSet THEN -2 * STEP_HEIGHT
       ELSE IF key \in t.lakeAdjacentSet THEN -2 * STEP_HEIGHT
       ELSE -STEP_HEIGHT

\* faulty variant: the water-adjacent sets are tested before darkGreenInner
getElevationWaterFirst(t, row, col) ==
    LET key == Key(row, col)
    IN IF ~t.generated THEN -STEP_HEIGHT
       ELSE IF key \in t.blackSet THEN 2 * STEP_HEIGHT
       ELSE IF key \in t.graySet THEN STEP_HEIGHT
       ELSE IF key \in t.riverAdjacentSet THEN -2 * STEP_HEIGHT
       ELSE IF key \in t.lakeAdjacentSet THEN -2 * STEP_HEIGHT
       ELSE IF key \in t.darkGreenInner THEN STEP_HEIGHT \div 2
       ELSE IF key \in t.riverSet THEN -2 * STEP_HEIGHT
       ELSE IF key \in t.lakeSet THEN -2 * STEP_HEIGHT
       ELSE IF key \in t.darkGreenOuter THEN 0
       ELSE -STEP_HEIGHT

getElevationFromTerrain(t, row, col) ==
    LET key == Key(row, col)
    IN IF ~t.generated THEN -STEP_HEIGHT
       ELSE IF key \in t.blackSet THEN 2 * STEP_HEIGHT
       ELSE IF key \in t.graySet THEN STEP_HEIGHT
       ELSE IF key \in t.darkGreenInner THEN STEP_HEIGHT \div 2
       ELSE IF key \in t.riverSet THEN -2 * STEP_HEIGHT
       ELSE IF key \in t.lakeSet THEN -2 * STEP_HEIGHT
       ELSE IF key \in t.riverAdjacentSet THEN -2 * STEP_HEIGHT
       ELSE IF key \in t.lakeAdjacentSet THEN -2 * STEP_HEIGHT
       ELSE IF key \in t.darkGreenOuter THEN 0
       ELSE -STEP_HEIGHT

\* TileGrid's own lookup over the sets of its useMemo; t is never null there
getTileInfo(t, row, col) ==
    LET key == Key(row, col)
    IN IF key \in t.blackSet THEN 2 * STEP_HEIGHT
       ELSE IF key \in t.graySet THEN STEP_HEIGHT
       ELSE IF key \in t.darkGreenInner THEN STEP_HEIGHT \div 2
       ELSE IF key \in t.riverSet THEN -2 * STEP_HEIGHT
       ELSE IF key \in t.lakeSet THEN -2 * STEP_HEIGHT
       ELSE IF key \in t.riverAdjacentSet THEN -2 * STEP_HEIGHT
       ELSE IF key \in t.lakeAdjacentSet THEN -2 * STEP_HEIGHT
       ELSE IF key \in t.darkGreenOuter THEN 0
       ELSE -STEP_HEIGHT

\* the cells the bundles are built over and the lookups are asked for
ElevCells == {<<0, 1>>, <<1, 0>>}

ElevKeys == {Key(p[1], p[2]) : p \in ElevCells}

\* every bundle of eight sets over ElevKeys, overlapping or not
Bundles ==
    [blackSet : SUBSET ElevKeys, graySet : SUBSET ElevKeys,
     darkGreenInner : SUBSET ElevKeys, darkGreenOuter : SUBSET ElevKeys,
     riverSet : SUBSET ElevKeys, riverAdjacentSet : SUBSET ElevKeys,
     lakeSet : SUBSET ElevKeys, lakeAdjacentSet : SUBSET ElevKeys,
     generated : {TRUE}]

InitElev ==
    /\ rows = ROWS
    /\ cols = COLS
    /\ characterRow = START_ROW
    /\ characterCol = START_COL
    /\ terrain = NoTerrain
    /\ treePositions = {}
    /\ treesStale = TRUE
    /\ lastOp = <<"init", 0, 0, FALSE>>
    /\ diagRun = -1
    /\ score = 0
    /\ gameState = "menu"
    /\ \E t \in Bundles \cup {NoBundle} : gen = [pc |-> "idle", terrain |-> t]

\* Character asks the store's terrain for the elevation of a cell
LookupElevation ==
    /\ gen.pc = "idle"
    /\ \E p \in ElevCells :
         gen' = [pc |-> "looked", by |-> "getElevationFromTerrain",
                 terrain |-> gen.terrain, row |-> p[1], col |-> p[2],
                 elevation |-> getElevationFromTerrain(gen.terrain, p[1], p[2])]
    /\ UNCHANGED store

\* TileGrid asks its own sets for the elevation of a cell it renders
LookupTileInfo ==
    /\ gen.pc = "idle"
    /\ gen.terrain.generated
    /\ \E p \in ElevCells :
         gen' = [pc |-> "looked", by |-> "getTileInfo",
                 terrain |-> gen.terrain, row |-> p[1], col |-> p[2],
                 elevation |-> getTileInfo(gen.terrain, p[1], p[2])]
    /\ UNCHANGED store

NextElev ==
    \/ LookupElevation
    \/ LookupTileInfo

SpecElev == InitElev /\ [][NextElev]_vars

(***************************************************************************)
(* Claims about the elevation lookups                                       *)
(***************************************************************************)
\* the priority order of the data model: set, elevation in half steps
PriorityOrder ==
    << <<"blackSet", 4>>, <<"graySet", 2>>, <<"darkGreenInner", 1>>,
       <<"riverSet", -4>>, <<"lakeSet", -4>>, <<"riverAdjacentSet", -4>>,
       <<"lakeAdjacentSet", -4>>, <<"darkGreenOuter", 0>> >>

\* the positions in PriorityOrder of the sets of t that contain key
setsHolding(t, key) ==
    {i \in 1..Len(PriorityOrder) : key \in t[PriorityOrder[i][1]]}

\* the value of the first set in PriorityOrder that contains key, -1 step
\* (-2 half steps) when none does or when there is no terrain
firstSetValue(t, key) ==
    IF ~t.generated \/ setsHolding(t, key) = {} THEN -2
    ELSE LET first == CHOOSE i \in setsHolding(t, key) :
                          \A j \in setsHolding(t, key) : i <= j
         IN PriorityOrder[first][2]

Looked == gen.pc = "looked"

lookedKey == Key(gen.row, gen.col)

\* C17: each lookup returns the value of the first set that contains the cell
\* in the order peak (+2), slope-near (+1), slope-inner (+0.5), river (-2),
\* lake (-2), river-adjacent (-2), lake-adjacent (-2), slope-outer (0), and
\* -1 step when no set contains the cell or no terrain has been generated.
C17_FirstSetInPriorityOrder ==
    Looked => gen.elevation = firstSetValue(gen.terrain, lookedKey)

\* a lookup of a cell that is in slope-outer and in a water set
C17_Witness ==
    /\ Looked
    /\ gen.by = "getElevationFromTerrain"
    /\ lookedKey \in gen.terrain.darkGreenOuter \cap gen.terrain.lakeSet
    /\ gen.elevation = -4

\* the elevation of the first slope band (near, inner, outer) holding key
slopeBandValue(t, key) ==
    IF key \in t.graySet THEN 2
    ELSE IF key \in t.darkGreenInner THEN 1
    ELSE 0

inSlopeAndWaterAdjacent(t, key) ==
    /\ key \in t.graySet \cup t.darkGreenInner \cup t.darkGreenOuter
    /\ key \in t.riverAdjacentSet \cup t.lakeAdjacentSet

\* C18: a cell that is in a slope set (slope-near, slope-inner or slope-outer)
\* and in a water-adjacent set gets the elevation of its slope band from the
\* lookup, not the water-adjacent -2 steps.
C18_SlopeBeatsWaterAdjacent ==
    Looked /\ inSlopeAndWaterAdjacent(gen.terrain, lookedKey)
        => gen.elevation = slopeBandValue(gen.terrain, lookedKey)

\* C18 as the code has it: a cell that is in slope-near or slope-inner, in a
\* water-adjacent set and not a peak gets the elevation of its slope band
\* (+1 step for slope-near, otherwise +0.5 step); a cell whose only slope set
\* is slope-outer, in a water-adjacent set and not a peak, gets -2 steps.
C18_NearAndInnerBeatWaterAdjacent ==
    Looked /\ inSlopeAndWaterAdjacent(gen.terrain, lookedKey)
           /\ lookedKey \notin gen.terrain.blackSet
        => IF lookedKey \in gen.terrain.graySet \cup gen.terrain.darkGreenInner
           THEN gen.elevation = slopeBandValue(gen.terrain, lookedKey)
           ELSE gen.elevation = -4

\* a lookup of a slope-inner cell that is lake-adjacent
C18_Witness ==
    /\ Looked
    /\ lookedKey \in gen.terrain.darkGreenInner \cap gen.terrain.lakeAdjacentSet
    /\ lookedKey \notin gen.terrain.blackSet \cup gen.terrain.graySet
    /\ gen.elevation = 1

(***************************************************************************)
(* Trees' placement loop (Trees.tsx, useMemo and effect) run step by step   *)
(***************************************************************************)
\* faulty variant: a cell already placed is placed again
placeStepRepeats(positions, row, col, water) ==
    IF Key(row, col) \in water THEN positions
    ELSE IF row = START_ROW /\ col = START_COL THEN positions
    ELSE Append(positions, <<row, col>>)

\* one iteration of the while loop (lines 31-37) on the drawn cell
placeStep(positions, row, col, water) ==
    IF Key(row, col) \in water THEN positions
    ELSE IF row = START_ROW /\ col = START_COL THEN positions
    ELSE IF \E i \in 1..Len(positions) : positions[i] = <<row, col>> THEN positions
    ELSE Append(positions, <<row, col>>)

\* the n-th cell of rows 6 and 7, in row-major order
freshCell(n) == <<6 + (n \div COLS), n % COLS>>

\* the cells the modelled draws of lines 31-32 fall on: a river cell, a lake
\* cell, the start cell, the cell placed first, and a cell not drawn before
TreeLoopDraws(positions) ==
    {<<2, 0>>, <<4, 2>>, <<START_ROW, START_COL>>, freshCell(Len(positions))}
    \cup (IF positions = <<>> THEN {} ELSE {positions[1]})

InitTrees ==
    /\ rows = ROWS
    /\ cols = COLS
    /\ characterRow = START_ROW
    /\ characterCol = START_COL
    /\ terrain \in {NoTerrain, terrainOf(sampleRiver(rows, cols), sampleLake)}
    /\ treePositions = {}
    /\ treesStale = TRUE
    /\ lastOp = <<"init", 0, 0, FALSE>>
    /\ diagRun = -1
    /\ score = 0
    /\ gameState = "menu"
    /\ gen = [pc |-> "idle"]

\* lines 22-28: no terrain returns [] at once and the effect publishes the
\* empty set; otherwise the loop starts
TreesBegin ==
    /\ gen.pc = "idle"
    /\ IF ~terrain.generated
       THEN gen' = [pc |-> "treesDone", positions |-> <<>>, attempts |-> 0]
       ELSE gen' = [pc |-> "trees", positions |-> <<>>, attempts |-> 0]
    /\ UNCHANGED store

treesLoop == Len(gen.positions) < NUM_TREES /\ gen.attempts < MAX_ATTEMPTS

\* one iteration of the while loop (lines 29-38)
TreesDraw ==
    /\ gen.pc = "trees"
    /\ treesLoop
    /\ \E p \in TreeLoopDraws(gen.positions) :
         gen' = [gen EXCEPT !.attempts = gen.attempts + 1,
                            !.positions = placeStep(gen.positions, p[1], p[2],
                                                    terrain.riverSet \cup terrain.lakeSet)]
    /\ UNCHANGED store

\* the loop condition fails: the positions are returned (line 39) and the
\* effect (lines 42-45) publishes their keys with setTreePositions
TreesEnd ==
    /\ gen.pc = "trees"
    /\ ~treesLoop
    /\ gen' = [gen EXCEPT !.pc = "treesDone"]
    /\ treePositions' = KeySet(gen.positions)
    /\ UNCHANGED <<rows, cols, characterRow, characterCol, terrain, score,
                   gameState, treesStale, lastOp, diagRun>>

NextTrees ==
    \/ TreesBegin
    \/ TreesDraw
    \/ TreesEnd

SpecTrees == InitTrees /\ [][NextTrees]_vars

(***************************************************************************)
(* Claims about the obstacle set                                            *)
(***************************************************************************)
\* C19: the tree set Trees places holds only distinct cells of the grid, none
\* of them a river or lake cell, none the start cell (12,8), and at most 25
\* cells, whatever the terrain and the draws; with no terrain it is empty.
C19_TreesDistinctOnLand ==
    gen.pc \in {"trees", "treesDone"} =>
        /\ \A i, j \in 1..Len(gen.positions) :
               i # j => gen.positions[i] # gen.positions[j]
        /\ \A i \in 1..Len(gen.positions) :
               /\ InGrid(gen.positions[i])
               /\ Key(gen.positions[i][1], gen.positions[i][2])
                      \notin terrain.riverSet \cup terrain.lakeSet
               /\ gen.positions[i] # <<12, 8>>
        /\ Len(gen.positions) <= 25
        /\ ~terrain.generated => gen.positions = <<>>
        /\ gen.pc = "treesDone" =>
               /\ treePositions = KeySet(gen.positions)
               /\ Cardinality(treePositions) = Len(gen.positions)

\* 25 trees placed after draws on water, on the start cell and on a placed cell
C19_Witness ==
    /\ gen.pc = "treesDone"
    /\ Len(gen.positions) = 25
    /\ gen.attempts > 28

\* C20: once the obstacle set has been placed for a generated terrain, no
\* operation of the session other than a regeneration of the terrain changes
\* it: a move, a click or a reset leaves the set used by the movement rule as
\* it was placed.
C20_OnlyRegenerationChangesObstacles ==
    [][Mounted /\ lastOp'[1] \in {"move", "click", "reset"}
           => treePositions' = treePositions]_vars

(***************************************************************************)
(* The adjacency helper (TileGrid.tsx, getAdjacent) applied to grid cells   *)
(***************************************************************************)
\* the grids the helper is called on: every grid up to MaxDim x MaxDim, the
\* scene's and the board's
AdjGrids == {<<r, c>> : r \in 1..MaxDim, c \in 1..MaxDim} \cup Grids

InitAdj ==
    /\ \E g \in AdjGrids : rows = g[1] /\ cols = g[2]
    /\ characterRow = START_ROW
    /\ characterCol = START_COL
    /\ terrain = NoTerrain
    /\ treePositions = {}
    /\ treesStale = TRUE
    /\ lastOp = <<"init", 0, 0, FALSE>>
    /\ diagRun = -1
    /\ score = 0
    /\ gameState = "menu"
    /\ gen = [pc |-> "idle"]

\* a caller asks for the neighbours of an in-grid cell
Adjacent ==
    /\ gen.pc = "idle"
    /\ \E row \in 0..(rows - 1), col \in 0..(cols - 1) :
         gen' = [pc |-> "adj", row |-> row, col |-> col,
                 adj |-> getAdjacent(row, col, rows, cols)]
    /\ UNCHANGED store

NextAdj == Adjacent

SpecAdj == InitAdj /\ [][NextAdj]_vars

\* the four orthogonal neighbours of a cell that lie in the rows x cols grid
neighboursInGrid(row, col) ==
    {p \in {<<row - 1, col>>, <<row + 1, col>>, <<row, col - 1>>, <<row, col + 1>>} :
        InGrid(p)}

\* C21: for every in-grid cell the adjacency helper returns exactly the cells
\* among (row-1,col), (row+1,col), (row,col-1), (row,col+1) that are in the
\* grid: at most 4, no diagonal, not the cell itself, none out of the grid,
\* and b is adjacent to a exactly when a is adjacent to b.
C21_AdjacentIsOrthogonalInGrid ==
    gen.pc = "adj" =>
        /\ Cells(gen.adj) = neighboursInGrid(gen.row, gen.col)
        /\ Len(gen.adj) = Cardinality(Cells(gen.adj))
        /\ Len(gen.adj) <= 4
        /\ \A p \in Cells(gen.adj) :
               /\ InGrid(p)
               /\ p # <<gen.row, gen.col>>
               /\ manhattanDist(p, <<gen.row, gen.col>>) = 1
        /\ \A r \in 0..(rows - 1), c \in 0..(cols - 1) :
               <<r, c>> \in Cells(gen.adj)
                   <=> <<gen.row, gen.col>> \in Cells(getAdjacent(r, c, rows, cols))

\* the neighbours of a cell on the last column, and of a cell with all four
C21_Witness ==
    /\ gen.pc = "adj"
    /\ gen.col = cols - 1
    /\ gen.row > 0
    /\ gen.row < rows - 1
    /\ Len(gen.adj) = 3

(***************************************************************************)
(* The three generation loops run to their end                              *)
(***************************************************************************)
\* the while loop of pickRandomLakeTiles with every frontier draw 0
RECURSIVE lakeLoop(_, _, _, _, _, _, _)
lakeLoop(lakeTiles, inLake, frontier, targetSize, riverSet, rws, cls) ==
    IF Len(lakeTiles) < targetSize /\ Len(frontier) > 0
    THEN LET s == lakePop(lakeTiles, inLake, frontier, 0, riverSet, rws, cls)
         IN lakeLoop(s.lakeTiles, s.inLake, s.frontier, targetSize, riverSet, rws, cls)
    ELSE lakeTiles

\* pickRandomLakeTiles with its draws given: t of the target size, dr and dc
\* of the seed cell, and 0 for every frontier index
pickRandomLakeTiles(rws, cls, riverTiles, t, dr, dc) ==
    lakeLoop(<< <<2 + dr, 2 + dc>> >>, {Key(2 + dr, 2 + dc)},
             getAdjacent(2 + dr, 2 + dc, rws, cls), 10 + t,
             KeySet(riverTiles), rws, cls)

\* the seed cells the modelled draws take in the long runs of the mountain
\* loop: one that can be accepted once on the 28x20 grid, two that are always
\* too close to the river
LoopSeeds == {<<10, 5>>, <<7, 18>>, <<0, 0>>}

\* the store's terrain, read by Trees, is published in the 28x20 scene only:
\* Trees is not mounted with the other grids
InitLoops ==
    /\ \E g \in LakeGrids : rows = g[1] /\ cols = g[2]
    /\ characterRow = START_ROW
    /\ characterCol = START_COL
    /\ terrain = IF <<rows, cols>> = <<ROWS, COLS>>
                 THEN terrainOf(sampleRiver(rows, cols), sampleLake)
                 ELSE NoTerrain
    /\ treePositions = {}
    /\ treesStale = TRUE
    /\ lastOp = <<"init", 0, 0, FALSE>>
    /\ diagRun = -1
    /\ score = 0
    /\ gameState = "menu"
    /\ gen = [pc |-> "idle", riverTiles |-> sampleRiver(rows, cols),
              lakeTiles |-> pickRandomLakeTiles(rows, cols, sampleRiver(rows, cols),
                                                0, 0, 0)]

\* one iteration of the mountain loop (lines 130-163), any number of times
PeaksAttemptLong ==
    /\ gen.pc = "peaks"
    /\ peaksLoop
    /\ \E d \in RandInt(3), seed \in {p \in LoopSeeds : InGrid(p)} :
         gen' = peaksAttempt(gen, d, seed, <<0, 0, 0>>)
    /\ UNCHANGED store

NextLoops ==
    \/ LakeBegin
    \/ LakePop
    \/ LakeEnd
    \/ PeaksBegin
    \/ PeaksAttemptLong
    \/ PeaksEnd
    \/ TreesBegin
    \/ TreesDraw
    \/ TreesEnd

SpecLoops == InitLoops /\ [][NextLoops]_vars

\* C22: every generation loop ends, whatever the grid and the draws: the lake
\* frontier loop after at most 4 x targetSize iterations (each iteration takes
\* one cell off the frontier, and only an accepted cell puts cells on it, at
\* most 4), the mountain loop within numClusters x 100 attempts, the obstacle
\* loop within 200 draws.
C22_LoopsTerminate ==
    /\ gen.pc \in {"lake", "lakeDone"} =>
           /\ gen.pops + Len(gen.frontier) <= 4 * Len(gen.lakeTiles)
           /\ Len(gen.lakeTiles) <= gen.targetSize
           /\ gen.pops <= 4 * gen.targetSize
    /\ gen.pc \in {"peaks", "peaksDone"} => gen.attempts <= gen.numClusters * 100
    /\ gen.pc \in {"trees", "treesDone"} => gen.attempts <= 200

\* the lake loop ended by an empty frontier, short of its target size
C22_Witness ==
    /\ gen.pc = "lakeDone"
    /\ Len(gen.frontier) = 0
    /\ Len(gen.lakeTiles) < gen.targetSize

(***************************************************************************)
(* The classifier (TileGrid.tsx, useMemo) applied to generated tiles        *)
(***************************************************************************)
\* every cell of the largest grid, and the key the code builds for it
AllCells == (0..(ROWS - 1)) \X (0..(COLS - 1))

KeyTable == [p \in AllCells |-> Key(p[1], p[2])]

\* key.split(',').map(Number): the cell whose key is key
parseKey(key) == CHOOSE p \in AllCells : KeyTable[p] = key

\* the keys of the cells getAdjacent returns for the cells given
adjacentKeys(cells, rws, cls) ==
    UNION {KeySet(getAdjacent(p[1], p[2], rws, cls)) : p \in cells}

\* faulty variant: the river-adjacent cells are not filtered against the lake
classifyLakeUnfiltered(rws, cls, riverTiles, lakeTiles, blackTiles) ==
    LET black == KeySet(blackTiles)
        gray == adjacentKeys(Cells(blackTiles), rws, cls) \ black
        inner == adjacentKeys({parseKey(k) : k \in gray}, rws, cls) \ (black \cup gray)
        outer == adjacentKeys({parseKey(k) : k \in inner}, rws, cls)
                     \ (black \cup gray \cup inner)
        river == KeySet(riverTiles)
        lake == KeySet(lakeTiles)
    IN [blackSet |-> black, graySet |-> gray, darkGreenInner |-> inner,
        darkGreenOuter |-> outer, riverSet |-> river,
        riverAdjacentSet |-> adjacentKeys(Cells(riverTiles), rws, cls) \ river,
        lakeSet |-> lake,
        lakeAdjacentSet |-> adjacentKeys(Cells(lakeTiles), rws, cls) \ (river \cup lake),
        generated |-> TRUE]

\* lines 189-227: the eight sets built from the three tile lists
classify(rws, cls, riverTiles, lakeTiles, blackTiles) ==
    LET black == KeySet(blackTiles)
        gray == adjacentKeys(Cells(blackTiles), rws, cls) \ black
        inner == adjacentKeys({parseKey(k) : k \in gray}, rws, cls) \ (black \cup gray)
        outer == adjacentKeys({parseKey(k) : k \in inner}, rws, cls)
                     \ (black \cup gray \cup inner)
        river == KeySet(riverTiles)
        lake == KeySet(lakeTiles)
    IN [blackSet |-> black, graySet |-> gray, darkGreenInner |-> inner,
        darkGreenOuter |-> outer, riverSet |-> river,
        riverAdjacentSet |-> adjacentKeys(Cells(riverTiles), rws, cls) \ (river \cup lake),
        lakeSet |-> lake,
        lakeAdjacentSet |-> adjacentKeys(Cells(lakeTiles), rws, cls) \ (river \cup lake),
        generated |-> TRUE]

\* the mountain loop on the draws given, <<size draw, seed>> per attempt, the
\* first neighbour left drawn each time; a run of the code whose later attempts
\* are all rejected returns the same tiles. The state after an attempt is bound
\* as the element of a one-element set, which TLC evaluates once.
RECURSIVE peaksRun(_, _)
peaksRun(g, draws) ==
    IF draws = <<>> \/ ~(/\ g.clustersAdded < g.numClusters
                         /\ Len(g.allTiles) < maxTiles
                         /\ g.attempts < g.numClusters * 100)
    THEN g.allTiles
    ELSE CHOOSE tiles \in
             {peaksRun(next, Tail(draws)) :
                 next \in {peaksAttempt(g, Head(draws)[1], Head(draws)[2], <<0, 0, 0>>)}} :
             TRUE

pickRandomBlackTiles(riverTiles, lakeTiles, draws) ==
    peaksRun([riverTiles |-> riverTiles, lakeTiles |-> lakeTiles, numClusters |-> 5,
              allTiles |-> <<>>, clusters |-> <<>>, clustersAdded |-> 0,
              attempts |-> 0], draws)

\* the seed cells drawn for the classifier's inputs
ClassifySeeds == {<<10, 5>>, <<15, 16>>, <<8, 18>>, <<7, 18>>}

ClusterDraws ==
    UNION {[1..n -> RandInt(3) \X ClassifySeeds] : n \in 0..MaxClusterDraws}

\* peak lists no generator returns: peaks beside and on the water, in a corner
OtherPeaks ==
    {<< <<3, 1>>, <<4, 5>> >>, << <<0, 0>>, <<0, 1>> >>, << <<2, 2>> >>,
     << <<6, 2>>, <<27, 19>> >>}

InitClassify ==
    /\ rows = ROWS
    /\ cols = COLS
    /\ characterRow = START_ROW
    /\ characterCol = START_COL
    /\ terrain = NoTerrain
    /\ treePositions = {}
    /\ treesStale = TRUE
    /\ lastOp = <<"init", 0, 0, FALSE>>
    /\ diagRun = -1
    /\ score = 0
    /\ gameState = "menu"
    /\ \E river \in LakeRivers(rows, cols) :
       \E lake \in {pickRandomLakeTiles(rows, cols, river, 0, 0, 0)} :
          \/ \E peaks \in {pickRandomBlackTiles(river, lake, draws) :
                                draws \in ClusterDraws} :
               gen = [pc |-> "idle", riverTiles |-> river, lakeTiles |-> lake,
                      blackTiles |-> peaks, generated |-> TRUE]
          \/ \E peaks \in OtherPeaks :
               gen = [pc |-> "idle", riverTiles |-> river, lakeTiles |-> lake,
                      blackTiles |-> peaks, generated |-> FALSE]

\* TileGrid's useMemo builds the sets from the tiles
Classify ==
    /\ gen.pc = "idle"
    /\ gen' = [gen EXCEPT !.pc = "classified"] @@
              [sets |-> classify(rows, cols, gen.riverTiles, gen.lakeTiles,
                                 gen.blackTiles)]
    /\ UNCHANGED store

NextClassify == Classify

SpecClassify == InitClassify /\ [][NextClassify]_vars

(***************************************************************************)
(* Claims about the classifier                                              *)
(***************************************************************************)
Classified == gen.pc = "classified"

\* the in-grid orthogonal neighbours of the cells of a set
neighboursOf(cells) == UNION {neighboursInGrid(q[1], q[2]) : q \in cells}

keysOf(cells) == {Key(p[1], p[2]) : p \in cells}

refNear == neighboursOf(Cells(gen.blackTiles)) \ Cells(gen.blackTiles)

refInner == neighboursOf(refNear) \ (Cells(gen.blackTiles) \cup refNear)

refOuter ==
    neighboursOf(refInner) \ (Cells(gen.blackTiles) \cup refNear \cup refInner)

refWater == Cells(gen.riverTiles) \cup Cells(gen.lakeTiles)

\* C23: the classifier's output equals the reference: slope-near = in-grid
\* neighbours of peaks that are not peaks; slope-inner = neighbours of
\* slope-near cells that are neither peak nor slope-near; slope-outer =
\* neighbours of slope-inner cells in none of the three; river-adjacent
\* (lake-adjacent) = neighbours of river (lake) cells, neither river nor lake.
C23_ClassifierMatchesReference ==
    Classified =>
        /\ gen.sets.blackSet = keysOf(Cells(gen.blackTiles))
        /\ gen.sets.graySet = keysOf(refNear)
        /\ gen.sets.darkGreenInner = keysOf(refInner)
        /\ gen.sets.darkGreenOuter = keysOf(refOuter)
        /\ gen.sets.riverSet = keysOf(Cells(gen.riverTiles))
        /\ gen.sets.lakeSet = keysOf(Cells(gen.lakeTiles))
        /\ gen.sets.riverAdjacentSet
               = keysOf(neighboursOf(Cells(gen.riverTiles)) \ refWater)
        /\ gen.sets.lakeAdjacentSet
               = keysOf(neighboursOf(Cells(gen.lakeTiles)) \ refWater)

\* a classified terrain with all three slope rings, a lake cell beside the
\* river, and peaks beside the water
C23_Witness ==
    /\ Classified
    /\ gen.sets.darkGreenOuter # {}
    /\ neighboursOf(Cells(gen.riverTiles)) \cap Cells(gen.lakeTiles) # {}
    /\ gen.sets.graySet \cap gen.sets.riverAdjacentSet # {}

slopeKeys ==
    gen.sets.blackSet \cup gen.sets.graySet \cup gen.sets.darkGreenInner
        \cup gen.sets.darkGreenOuter

waterKeys ==
    gen.sets.riverSet \cup gen.sets.lakeSet \cup gen.sets.riverAdjacentSet
        \cup gen.sets.lakeAdjacentSet

\* C27: in every terrain the generators produce (river, lake, mountains, then
\* classification) the peak, slope-near, slope-inner and slope-outer sets are
\* disjoint from the river, lake, river-adjacent and lake-adjacent sets.
C27_SlopesDisjointFromWater ==
    Classified /\ gen.generated => slopeKeys \cap waterKeys = {}

\* a generated terrain with two clusters, one of them at distance exactly 5
\* from the water, so that its slope-outer ring ends beside a water-adjacent cell
C27_Witness ==
    /\ Classified
    /\ gen.generated
    /\ Len(gen.blackTiles) >= 5
    /\ \E p \in Cells(gen.blackTiles), w \in refWater : manhattanDist(p, w) = 5

(***************************************************************************)
(* Claims about the session order and the store operations                 *)
(***************************************************************************)
\* C24: the session goes uninitialized -> terrain-generated -> ready: a non-empty
\* obstacle set implies that a terrain has been published, a published terrain
\* never becomes null again, and after every publication of a terrain the next
\* store operation is a publication or the placement of the obstacle set (no
\* move, click or reset sees the set of the previous terrain)
C24_TreesFollowTerrain ==
    /\ [](treePositions # {} => terrain.generated)
    /\ [][/\ (terrain.generated => terrain'.generated)
          /\ (lastOp[1] = "setTerrain"
                 => lastOp'[1] \in {"setTerrain", "setTreePositions"})]_vars

\* a terrain is published again while the obstacle set of the previous one is in
\* the store
C24_Witness ==
    /\ lastOp[1] = "setTerrain"
    /\ treePositions # {}
    /\ terrain.generated

\* C25: a move (accepted or rejected) and a tile click leave terrain, the obstacle
\* set, score and gameState as they were, and a rejected move or a click on an
\* obstacle tile leaves the character position as it was too
C25_MoveAndClickChangeOnlyPosition ==
    [][lastOp'[1] \in {"move", "click"}
       => /\ terrain' = terrain
          /\ treePositions' = treePositions
          /\ score' = score
          /\ gameState' = gameState
          /\ (lastOp'[4] => <<characterRow', characterCol'>> = Pos)]_vars

\* a tile holding a tree has been clicked while the score and the game state are
\* not the initial ones
C25_Witness ==
    /\ lastOp[1] = "click"
    /\ lastOp[4]
    /\ score # 0
    /\ gameState = "playing"

\* the cells that held an obstacle, and the corners of the grid
enterCells ==
    {c \in TreeDraws \cup ClickCells : Key(c[1], c[2]) \in treePositions}
        \cup {<<0, 0>>, <<rows - 1, cols - 1>>}

otherLookup ==
    IF gen.by = "getTileInfo"
    THEN getElevationFromTerrain(gen.terrain, gen.row, gen.col)
    ELSE getTileInfo(gen.terrain, gen.row, gen.col)

\* C26: for every non-null bundle and every cell, getTileInfo and
\* getElevationFromTerrain return the same elevation
C26_LookupsAgree ==
    Looked /\ gen.terrain.generated => gen.elevation = otherLookup

\* TileGrid has looked up a cell that is in slope-outer, in a water-adjacent set
\* and in no set tested earlier
C26_Witness ==
    /\ Looked
    /\ gen.by = "getTileInfo"
    /\ lookedKey \in gen.terrain.darkGreenOuter \cap gen.terrain.riverAdjacentSet
    /\ lookedKey \notin gen.terrain.blackSet \cup gen.terrain.graySet
                          \cup gen.terrain.darkGreenInner
    /\ gen.elevation = -2 * STEP_HEIGHT

(***************************************************************************)
(* One candidate cluster of the mountain loop: lines 132-143, for every    *)
(* seed of the grid, every size and every pick of neighbours               *)
(***************************************************************************)
InitCluster ==
    /\ \E g \in AdjGrids : rows = g[1] /\ cols = g[2]
    /\ characterRow = START_ROW
    /\ characterCol = START_COL
    /\ terrain = NoTerrain
    /\ treePositions = {}
    /\ treesStale = TRUE
    /\ lastOp = <<"init", 0, 0, FALSE>>
    /\ diagRun = -1
    /\ score = 0
    /\ gameState = "menu"
    /\ gen = [pc |-> "idle"]

\* one iteration of the loop up to the cluster it builds, with remaining tiles
\* between 1 and maxTiles
GrowCluster ==
    /\ gen.pc = "idle"
    /\ \E r \in 0..(rows - 1), c \in 0..(cols - 1), d \in RandInt(3),
          remaining \in 1..maxTiles :
       LET adj == getAdjacent(r, c, rows, cols)
       IN \E p1 \in RandInt(Max(1, Len(adj))),
             p2 \in RandInt(Max(1, Len(adj) - 1)),
             p3 \in RandInt(Max(1, Len(adj) - 2)) :
            gen' = [pc |-> "cluster", seed |-> <<r, c>>,
                    clusterSize |-> clusterSizeOf(d, remaining),
                    cluster |-> growCluster(<< <<r, c>> >>, adj, 0,
                                            clusterSizeOf(d, remaining),
                                            <<p1, p2, p3>>)]
    /\ UNCHANGED store

NextCluster == GrowCluster

SpecCluster == InitCluster /\ [][NextCluster]_vars

\* C29: every cell of a candidate cluster is the seed or an orthogonal neighbour
\* of the seed, the cells are distinct, and any two of them are at Manhattan
\* distance at most 2
C29_ClusterAroundSeed ==
    gen.pc = "cluster" =>
        /\ gen.cluster[1] = gen.seed
        /\ \A i \in 2..Len(gen.cluster) :
               manhattanDist(gen.cluster[i], gen.seed) = 1
        /\ \A i, j \in 1..Len(gen.cluster) :
               /\ (i # j => gen.cluster[i] # gen.cluster[j])
               /\ manhattanDist(gen.cluster[i], gen.cluster[j]) <= 2

\* a cluster of four cells whose seed is on the edge of the grid
C29_Witness ==
    /\ gen.pc = "cluster"
    /\ Len(gen.cluster) = 4
    /\ gen.seed[1] = 0
    /\ \E i, j \in 2..4 : manhattanDist(gen.cluster[i], gen.cluster[j]) = 2

(***************************************************************************)
(* Claims about the river as a set                                         *)
(***************************************************************************)
\* the cells of tiles reachable from reached, frontier being the cells of reached
\* whose neighbours have not been looked at yet
RECURSIVE reachFrom(_, _, _)
reachFrom(frontier, reached, tiles) ==
    LET more == {t \in tiles \ reached :
                    \E u \in frontier : manhattanDist(t, u) = 1}
    IN IF more = {} THEN reached ELSE reachFrom(more, reached \cup more, tiles)

\* C30: the returned river has no repeated cell, holds the first waypoint (the
\* cell on the starting boundary), and every river cell is reachable from that
\* cell through orthogonally adjacent river cells
C30_RiverConnectedSet ==
    gen.pc = "done" =>
        /\ Cardinality(Cells(gen.riverTiles)) = Len(gen.riverTiles)
        /\ gen.waypoints[1] \in Cells(gen.riverTiles)
        /\ reachFrom({gen.waypoints[1]}, {gen.waypoints[1]}, Cells(gen.riverTiles))
             = Cells(gen.riverTiles)

\* a returned river on the 28x20 grid with a negative jog (its list order jumps
\* there) and a segment that runs over cells already in the river
C30_Witness ==
    /\ gen.pc = "done"
    /\ rows = ROWS /\ cols = COLS
    /\ \E j \in 1..Len(gen.jogs) : gen.jogs[j] < 0
    /\ ~ConsecutiveAdjacent(gen.riverTiles)
    /\ Len(segmentFrom(gen.waypoints, 1, <<>>)) > Len(gen.riverTiles)

====
